---- MODULE Spec2Model ----
(***************************************************************************)
(* Model of your-body-speaks: nutrition.py (quantity parser, nutrient      *)
(* arithmetic, nutrition table), menu.py (menu model) and main.py          *)
(* (validation, daily aggregation, report).                                *)
(*                                                                         *)
(* Texts are sequences of one-character strings.  Numbers are exact        *)
(* non-negative rationals <<numerator, denominator>> in lowest terms.      *)
(***************************************************************************)
EXTENDS Integers, Sequences, FiniteSets, TLC

VARIABLES
    pc,           \* position of the program
    text,         \* the text handed to parse_quantity, match, exists and get
    pq,           \* result of parse_quantity(text)
    lines,        \* the lines of nutrition_facts.md
    items,        \* NutritionDB.items
    found,        \* result of db.match(text)
    present,      \* result of db.exists(text)
    got,          \* result of db.get(text)
    data,         \* the document yaml.safe_load returns for menu.yaml
    menu,         \* the Menu object
    day,          \* index into DAYS of the day main is computing
    totals,       \* result of the last calculate call
    report,       \* main's rows, without the two header rows
    log,          \* what main logged: <<level, message>>
    out_file,     \* content of out.md
    exit_status,  \* exit status of the process
    raised,       \* the exception in flight
    validated,    \* check_menu has returned
    calc_calls    \* number of calculate calls made

vars == <<pc, text, pq, lines, items, found, present, got, data, menu, day,
          totals, report, log, out_file, exit_status, raised, validated, calc_calls>>

pureVars == <<text, pq>>

dbVars == <<lines, items, found, present, got>>

mainVars == <<data, menu, day, totals, report, log, out_file, exit_status,
              raised, validated, calc_calls>>

(***************************************************************************)
(* Bounds of the model                                                     *)
(***************************************************************************)
MaxWordLen == 3

MaxSpaces == 2

MaxRows == 3

MaxItems == 2

(***************************************************************************)
(* Python values                                                           *)
(***************************************************************************)
\* F(x) with x evaluated once, as a local variable of the code is
With(x, F(_)) == CHOOSE r \in {F(v) : v \in {x}} : TRUE

\* Python's None; no text built from single characters equals it.
None == <<"None">>

Letters == {"g", "c", "u", "p", "r"}

DigitChars == <<"0", "1", "2", "3", "4", "5", "6", "7", "8", "9">>

IsDigit(ch) == \E i \in 1..10 : DigitChars[i] = ch

DigitVal(ch) == (CHOOSE i \in 1..10 : DigitChars[i] = ch) - 1

IsSpace(ch) == ch = " "

\* str.lower() on one character (the upper-case letters the inputs use)
LowerChar(ch) ==
    CASE ch = "H" -> "h"
      [] ch = "C" -> "c"
      [] ch = "R" -> "r"
      [] ch = "G" -> "g"
      [] ch = "O" -> "o"
      [] ch = "S" -> "s"
      [] ch = "E" -> "e"
      [] OTHER -> ch

lower(t) == [i \in 1..Len(t) |-> LowerChar(t[i])]

\* str.strip()
strip(t) ==
    LET nonsp == {i \in 1..Len(t) : ~IsSpace(t[i])}
    IN  IF nonsp = {} THEN <<>>
        ELSE LET lo == CHOOSE i \in nonsp : \A j \in nonsp : i <= j
                 hi == CHOOSE i \in nonsp : \A j \in nonsp : i >= j
             IN  SubSeq(t, lo, hi)

startswith(t, pre) == Len(t) >= Len(pre) /\ SubSeq(t, 1, Len(pre)) = pre

\* str.split(): the maximal runs of non-whitespace, in order
RECURSIVE split(_)
split(t) ==
    LET s == strip(t)
    IN  IF s = <<>> THEN <<>>
        ELSE LET sp == {i \in 1..Len(s) : IsSpace(s[i])}
                 e  == IF sp = {} THEN Len(s) + 1
                       ELSE CHOOSE i \in sp : \A j \in sp : i <= j
             IN  <<SubSeq(s, 1, e - 1)>> \o split(SubSeq(s, e, Len(s)))

Range(s) == {s[i] : i \in 1..Len(s)}

(***************************************************************************)
(* Exact rationals                                                         *)
(***************************************************************************)
RECURSIVE GCD(_, _)
GCD(a, b) == IF b = 0 THEN a ELSE GCD(b, a % b)

Rat(n, d) == LET g == GCD(n, d) IN <<n \div g, d \div g>>

Zero == <<0, 1>>

RAdd(x, y) == Rat(x[1] * y[2] + y[1] * x[2], x[2] * y[2])

RMul(x, y) == Rat(x[1] * y[1], x[2] * y[2])

\* defined for y # Zero only; callers test y first (Python raises there)
RDiv(x, y) == Rat(x[1] * y[2], x[2] * y[1])

RInt(n) == <<n, 1>>

RGreater(x, y) == x[1] * y[2] > y[1] * x[2]

RECURSIVE Pow10(_)
Pow10(k) == IF k = 0 THEN 1 ELSE 10 * Pow10(k - 1)

\* int(digits)
RECURSIVE DigitsVal(_)
DigitsVal(ds) ==
    IF ds = <<>> THEN 0
    ELSE 10 * DigitsVal(SubSeq(ds, 1, Len(ds) - 1)) + DigitVal(ds[Len(ds)])

\* float("ddd") and float("ddd.ddd")
float(ip, fp) == Rat(DigitsVal(ip) * Pow10(Len(fp)) + DigitsVal(fp), Pow10(Len(fp)))

(***************************************************************************)
(* nutrition.py: parse_quantity                                            *)
(***************************************************************************)
half_ == <<"h", "a", "l", "f", " ">>

cup == <<"c", "u", "p">>

\* All ways ^(\d+(?:\.\d+)?)\s*(g|cup)?\s*(.+)$ can match t: i ends \d+,
\* j ends the optional fraction, a ends the first \s*, b ends the optional
\* unit, c ends the second \s*; the tail (.+) is t[c+1..] and is not empty.
QtyMatches(t) ==
    LET n == Len(t)
        IntEnds == {i \in 1..n : \A k \in 1..i : IsDigit(t[k])}
        FracEnds(i) == {i} \cup {j \in (i + 2)..n :
                                   /\ t[i + 1] = "."
                                   /\ \A k \in (i + 2)..j : IsDigit(t[k])}
        WsEnds(j) == {a \in j..n : \A k \in (j + 1)..a : IsSpace(t[k])}
        UnitEnds(a) == {a}
                       \cup {b \in {a + 1} : b <= n /\ t[b] = "g"}
                       \cup {b \in {a + 3} : b <= n /\ SubSeq(t, a + 1, b) = cup}
    IN  {m \in UNION {UNION {UNION {UNION {{<<i, j, a, b, c>> : c \in WsEnds(b)}
                                          : b \in UnitEnds(a)}
                                   : a \in WsEnds(j)}
                            : j \in FracEnds(i)}
                     : i \in IntEnds}
           : m[5] < n}

\* Lexicographic order on the five positions.
RECURSIVE LexGreater(_, _, _)
LexGreater(x, y, k) ==
    IF k > 5 THEN FALSE
    ELSE IF x[k] # y[k] THEN x[k] > y[k]
    ELSE LexGreater(x, y, k + 1)

\* re.match takes the first match of the backtracking search: every
\* quantifier is greedy and every optional group is tried present first.
FirstQtyMatch(ms) ==
    CHOOSE m \in ms : \A o \in ms : o = m \/ LexGreater(m, o, 1)

\* the groups of match m of text t
QtyGroups(t, m) ==
    [qty   |-> float(SubSeq(t, 1, m[1]), SubSeq(t, m[1] + 2, m[2])),
     isint |-> FALSE,
     unit  |-> IF m[4] = m[3] THEN None ELSE SubSeq(t, m[3] + 1, m[4]),
     item  |-> SubSeq(t, m[5] + 1, Len(t))]

parse_quantity(raw) ==
    With(lower(strip(raw)), LAMBDA t :
        IF startswith(t, half_)
        THEN [qty |-> <<1, 2>>, isint |-> FALSE, unit |-> None,
              item |-> SubSeq(t, 6, Len(t))]
        ELSE With(QtyMatches(t), LAMBDA ms :
                 IF ms # {}
                 THEN With(FirstQtyMatch(ms), LAMBDA m : QtyGroups(t, m))
                 ELSE [qty |-> <<1, 1>>, isint |-> TRUE, unit |-> None, item |-> t]))

(***************************************************************************)
(* nutrition.py: Nutrients                                                 *)
(***************************************************************************)
KCAL_PER_G == [c |-> 4, p |-> 4, f |-> 9]

Nutrients(c, p, f, cal) == [c |-> c, p |-> p, f |-> f, cal |-> cal]

NutrientsZero == Nutrients(Zero, Zero, Zero, Zero)

\* Nutrients.__add__
NAdd(x, y) == Nutrients(RAdd(x.c, y.c), RAdd(x.p, y.p), RAdd(x.f, y.f),
                        RAdd(x.cal, y.cal))

\* Nutrients.__mul__
NMul(x, n) == Nutrients(RMul(x.c, n), RMul(x.p, n), RMul(x.f, n), RMul(x.cal, n))

\* Nutrients.__truediv__ (n # Zero)
NDiv(x, n) == Nutrients(RDiv(x.c, n), RDiv(x.p, n), RDiv(x.f, n), RDiv(x.cal, n))

\* A call either returns a value or raises an exception.
Return(v) == [ok |-> TRUE, val |-> v]

Raise(exc, msg) == [ok |-> FALSE, exc |-> exc, msg |-> msg]

\* total after the first k items of ns
RECURSIVE NSum(_, _)
NSum(ns, k) == IF k = 0 THEN NutrientsZero ELSE NAdd(NSum(ns, k - 1), ns[k])

\* Nutrients.avg: total / len(items); dividing by len([]) raises
avg(ns) ==
    IF Len(ns) = 0 THEN Raise("ZeroDivisionError", <<>>)
    ELSE Return(NDiv(NSum(ns, Len(ns)), RInt(Len(ns))))

(***************************************************************************)
(* nutrition.py: NutritionDB                                               *)
(***************************************************************************)
\* self.items[name] = {...}: a dict keeps the position of a key's first
\* insertion and the value of its last.
DictSet(d, rec) ==
    IF \E i \in 1..Len(d) : d[i].name = rec.name
    THEN [i \in 1..Len(d) |-> IF d[i].name = rec.name THEN rec ELSE d[i]]
    ELSE Append(d, rec)

\* the record _load stores for a line
LineRecord(line) ==
    [name |-> lower(line.name), c |-> line.c, p |-> line.p, f |-> line.f,
     serving_amt |-> line.serving_amt, serving_unit |-> lower(line.serving_unit),
     cal |-> line.cal]

\* NutritionDB._load over the lines of the table: the header and the
\* separator are skipped, and so is a row of fewer than 8 columns.
RECURSIVE LoadRows(_, _, _)
LoadRows(d, ls, k) ==
    IF k > Len(ls) THEN d
    ELSE With(IF ls[k].ncols >= 8 THEN DictSet(d, LineRecord(ls[k])) ELSE d,
              LAMBDA d2 : LoadRows(d2, ls, k + 1))

NutritionDB_load(ls) == LoadRows(<<>>, ls, 3)

Names(db) == {db[i].name : i \in 1..Len(db)}

Item(db, name) == db[CHOOSE i \in 1..Len(db) : db[i].name = name]

\* overlap / len(name_words) if name_words else 0
Score(text_words, name) ==
    With(Range(split(name)), LAMBDA name_words :
        IF name_words = {} THEN Zero
        ELSE Rat(Cardinality(text_words \cap name_words), Cardinality(name_words)))

\* the loop of NutritionDB.match from name k on; best = <<best, best_score>>
RECURSIVE MatchLoop(_, _, _, _)
MatchLoop(db, text_words, k, best) ==
    IF k > Len(db) THEN best
    ELSE With(Score(text_words, db[k].name), LAMBDA score :
             MatchLoop(db, text_words, k + 1,
                       IF RGreater(score, best[2]) THEN <<db[k].name, score>> ELSE best))

\* match with the threshold test written >= 0.5
match_ge(db, raw) ==
    With(strip(lower(raw)), LAMBDA t :
        IF t \in Names(db) THEN t
        ELSE With(Range(split(t)), LAMBDA text_words :
             With(MatchLoop(db, text_words, 1, <<None, Zero>>), LAMBDA r :
                 IF ~RGreater(<<1, 2>>, r[2]) THEN r[1] ELSE None)))

match(db, raw) ==
    With(strip(lower(raw)), LAMBDA t :
        IF t \in Names(db) THEN t
        ELSE With(Range(split(t)), LAMBDA text_words :
             With(MatchLoop(db, text_words, 1, <<None, Zero>>), LAMBDA r :
                 IF RGreater(r[2], <<1, 2>>) THEN r[1] ELSE None)))

g_ == <<"g">>

\* the three branches of get that divide by the serving amount
Scaled(unit, item) ==
    \/ (unit = g_ /\ item.serving_unit = g_)
    \/ unit = item.serving_unit
    \/ unit = None

GetNutrients(item, ratio) ==
    Nutrients(RMul(item.c, ratio), RMul(item.p, ratio),
              RMul(item.f, ratio), RMul(item.cal, ratio))

\* NutritionDB.get
get(db, menu_text) ==
    With(parse_quantity(menu_text), LAMBDA q :
    With(match(db, q.item), LAMBDA name :
        IF name = None \/ name = <<>>      \* if not name
        THEN Raise("ValueError", <<"Item not found", menu_text>>)
        ELSE With(Item(db, name), LAMBDA item :
                 IF Scaled(q.unit, item)
                 THEN IF item.serving_amt = Zero
                      THEN Raise("ZeroDivisionError", <<>>)
                      ELSE Return(GetNutrients(item, RDiv(q.qty, item.serving_amt)))
                 ELSE Return(GetNutrients(item, q.qty)))))

\* NutritionDB.exists
exists(db, menu_text) == match(db, parse_quantity(menu_text).item) # None

(***************************************************************************)
(* menu.py: Menu                                                           *)
(*                                                                         *)
(* A YAML value is [t |-> type, v |-> value]: "str" (a text), "int",       *)
(* "null", "list" (a sequence of values) or "map" (a sequence of           *)
(* <<key, value>> pairs in document order, keys distinct).                 *)
(***************************************************************************)
YStr(t) == [t |-> "str", v |-> t]

YInt(n) == [t |-> "int", v |-> n]

YNull == [t |-> "null", v |-> <<>>]

YList(s) == [t |-> "list", v |-> s]

YMap(s) == [t |-> "map", v |-> s]

\* dict.get(key) and dict.get(key, default)
DictGet(m, key, default) ==
    IF m.t = "map" /\ \E i \in 1..Len(m.v) : m.v[i][1] = key
    THEN m.v[CHOOSE i \in 1..Len(m.v) : m.v[i][1] = key][2]
    ELSE default

\* truth value of a YAML value: None, {} and [] are false
Truthy(x) ==
    CASE x.t = "null" -> FALSE
      [] x.t \in {"map", "list", "str"} -> x.v # <<>>
      [] x.t = "int" -> x.v # 0

RESERVED_KEYS == {"carbs", "extra"}

\* str(n) of a non-negative int
RECURSIVE IntStr(_)
IntStr(n) ==
    IF n < 10 THEN <<DigitChars[n + 1]>>
    ELSE IntStr(n \div 10) \o <<DigitChars[(n % 10) + 1]>>

\* str(val) of a day value
ValStr(x) == IF x.t = "int" THEN IntStr(x.v) ELSE x.v

\* Menu._parse_extra
ExtraField(extra, key) == RInt(DictGet(extra, key, YInt(0)).v)

parse_extra(m, extra) ==
    IF ~Truthy(extra) THEN m
    ELSE [m EXCEPT !.extra = Nutrients(ExtraField(extra, "carbs"),
                                       ExtraField(extra, "protein"),
                                       ExtraField(extra, "fat"),
                                       ExtraField(extra, "calories"))]

\* parse_quantity(str(val))[0]: a float, or the int 1 of the fallback
Amount(q) == [qty |-> q.qty, isint |-> q.isint]

\* carbs_per_day of one entry: {day: parse_quantity(str(val))[0] ...}
PerDay(amounts) ==
    [i \in 1..Len(amounts) |->
        [day |-> amounts[i][1],
         grams |-> Amount(parse_quantity(ValStr(amounts[i][2])))]]

\* Menu._parse_carbs: every entry overwrites carbs_item and carbs_per_day
RECURSIVE CarbsLoop(_, _, _)
CarbsLoop(m, entries, k) ==
    IF k > Len(entries) THEN m
    ELSE With([m EXCEPT !.carbs_item = entries[k][1],
                        !.carbs_per_day = PerDay(entries[k][2].v)],
              LAMBDA m2 : CarbsLoop(m2, entries, k + 1))

parse_carbs(m, carbs) == IF ~Truthy(carbs) THEN m ELSE CarbsLoop(m, carbs.v, 1)

choose_ == <<"c", "h", "o", "o", "s", "e">>

\* re.match(r"choose\s+(\d+)", key): the digits of group 1, or None
ChooseMatch(key) ==
    IF ~startswith(key, choose_) THEN None
    ELSE LET n == Len(key)
             wsEnds == {a \in 7..n : \A k \in 7..a : IsSpace(key[k])}
             digEnds == {<<a, b>> \in wsEnds \X (8..n) :
                            b > a /\ \A k \in (a + 1)..b : IsDigit(key[k])}
         IN  IF digEnds = {} THEN None
             ELSE LET m == CHOOSE x \in digEnds :
                               \A y \in digEnds :
                                   x[1] > y[1] \/ (x[1] = y[1] /\ x[2] >= y[2])
                  IN  SubSeq(key, m[1] + 1, m[2])

\* options.append((items, n, id)) for one listed option
OptAppend(m, opt, n, id) ==
    CASE opt.t = "str" -> [m EXCEPT !.options = Append(@, <<<<opt.v>>, n, id>>)]
      [] opt.t = "map" -> [m EXCEPT !.options = Append(@, <<opt.v[1][2].v, n, id>>)]
      [] OTHER -> m

\* the loop over the options of one choose block
RECURSIVE OptsLoop(_, _, _, _, _)
OptsLoop(m, opts, n, id, k) ==
    IF k > Len(opts) THEN m
    ELSE With(OptAppend(m, opts[k], n, id),
              LAMBDA m2 : OptsLoop(m2, opts, n, id, k + 1))

\* one key of a mapping element; st = <<menu, choose_id>>
KeyStep(st, key, opts) ==
    With(ChooseMatch(key), LAMBDA mt :
        IF mt = None THEN st
        ELSE With(DigitsVal(mt), LAMBDA n :
                 <<OptsLoop([st[1] EXCEPT !.choose_groups = Append(@, n)],
                            IF Truthy(opts) THEN opts.v ELSE <<>>, n, st[2] + 1, 1),
                   st[2] + 1>>))

\* the loop over the keys of one mapping element
RECURSIVE KeysLoop(_, _, _)
KeysLoop(st, pairs, k) ==
    IF k > Len(pairs) THEN st
    ELSE With(KeyStep(st, pairs[k][1], pairs[k][2]),
              LAMBDA st2 : KeysLoop(st2, pairs, k + 1))

\* the loop over the elements of one section
RECURSIVE ItemsLoop(_, _, _)
ItemsLoop(st, its, k) ==
    IF k > Len(its) THEN st
    ELSE With(IF its[k].t = "str"
              THEN <<[st[1] EXCEPT !.fixed = Append(@, <<its[k].v>>)], st[2]>>
              ELSE KeysLoop(st, its[k].v, 1),
              LAMBDA st2 : ItemsLoop(st2, its, k + 1))

RECURSIVE SectionsLoop(_, _, _)
SectionsLoop(st, secs, k) ==
    IF k > Len(secs) THEN st
    ELSE With(IF secs[k][1] \in RESERVED_KEYS \/ secs[k][2].t # "list" THEN st
              ELSE ItemsLoop(st, secs[k][2].v, 1),
              LAMBDA st2 : SectionsLoop(st2, secs, k + 1))

\* Menu._parse_sections; choose_groups[id] is the id-th entry of the sequence
parse_sections(m, d) == SectionsLoop(<<m, 0>>, d.v, 1)[1]

EmptyMenu ==
    [extra |-> NutrientsZero, carbs_per_day |-> <<>>, carbs_item |-> None,
     fixed |-> <<>>, options |-> <<>>, choose_groups |-> <<>>]

\* Menu.__init__ and Menu._load
Menu(d) ==
    With(parse_extra(EmptyMenu, DictGet(d, "extra", YNull)), LAMBDA m1 :
    With(parse_carbs(m1, DictGet(d, "carbs", YNull)), LAMBDA m2 :
        parse_sections(m2, d)))

RECURSIVE Flatten(_)
Flatten(groups) == IF groups = <<>> THEN <<>>
                   ELSE Head(groups) \o Flatten(Tail(groups))

\* Menu.all_items; an empty carbs_item is false
all_items(m) ==
    Flatten(m.fixed) \o Flatten([i \in 1..Len(m.options) |-> m.options[i][1]])
    \o (IF m.carbs_item # None /\ m.carbs_item # <<>> THEN <<m.carbs_item>> ELSE <<>>)

(***************************************************************************)
(* main.py                                                                 *)
(***************************************************************************)
DAYS == <<"upper", "lower", "rest">>

\* the listing cut at the first missing item
RECURSIVE Missing_first(_, _, _)
Missing_first(db, its, k) ==
    IF k > Len(its) THEN <<>>
    ELSE IF exists(db, its[k]) THEN Missing_first(db, its, k + 1)
    ELSE <<its[k]>>

\* [item for item in its if not db.exists(item)], from item k on
RECURSIVE Missing(_, _, _)
Missing(db, its, k) ==
    IF k > Len(its) THEN <<>>
    ELSE (IF exists(db, its[k]) THEN <<>> ELSE <<its[k]>>) \o Missing(db, its, k + 1)

\* the count taken over all options, whatever their group
OptionCount_all(m, id) == Len(m.options)

OptionCount(m, id) == Cardinality({i \in 1..Len(m.options) : m.options[i][3] = id})

\* the loop over menu.choose_groups.items(), from group id on
RECURSIVE GroupsCheck(_, _)
GroupsCheck(m, id) ==
    IF id > Len(m.choose_groups) THEN Return(None)
    ELSE IF OptionCount(m, id) < m.choose_groups[id]
    THEN Raise("ValueError", <<"choose", m.choose_groups[id], OptionCount(m, id)>>)
    ELSE GroupsCheck(m, id + 1)

check_menu(db, m) ==
    With(all_items(m), LAMBDA its :
    With(Missing(db, its, 1), LAMBDA missing :
        IF missing # <<>> THEN Raise("ValueError", <<"Not found", missing>>)
        ELSE GroupsCheck(m, 1)))

\* [db.get(item) for item in its]: the first get that raises ends it
RECURSIVE GetEach(_, _, _, _)
GetEach(db, its, k, acc) ==
    IF k > Len(its) THEN Return(acc)
    ELSE With(get(db, its[k]), LAMBDA r :
             IF ~r.ok THEN r
             ELSE With(Append(acc, r.val), LAMBDA acc2 : GetEach(db, its, k + 1, acc2)))

get_nutrients(db, its) ==
    With(GetEach(db, its, 1, <<>>), LAMBDA rs : IF ~rs.ok THEN rs ELSE avg(rs.val))

\* for group in menu.fixed: totals = totals + get_nutrients(db, group)
RECURSIVE FixedLoop(_, _, _, _)
FixedLoop(db, tot, groups, k) ==
    IF k > Len(groups) THEN Return(tot)
    ELSE With(get_nutrients(db, groups[k]), LAMBDA r :
             IF ~r.ok THEN r
             ELSE With(NAdd(tot, r.val), LAMBDA tot2 : FixedLoop(db, tot2, groups, k + 1)))

\* grouped.setdefault(id, (n, []))[1].append(value): grouped is a sequence of
\* [id, n, choices] in the order the ids were first seen
GroupedAdd(grouped, id, n, value) ==
    IF \E i \in 1..Len(grouped) : grouped[i].id = id
    THEN [i \in 1..Len(grouped) |->
             IF grouped[i].id = id
             THEN [grouped[i] EXCEPT !.choices = Append(@, value)]
             ELSE grouped[i]]
    ELSE Append(grouped, [id |-> id, n |-> n, choices |-> <<value>>])

RECURSIVE OptionsLoop(_, _, _, _)
OptionsLoop(db, grouped, opts, k) ==
    IF k > Len(opts) THEN Return(grouped)
    ELSE With(get_nutrients(db, opts[k][1]), LAMBDA r :
             IF ~r.ok THEN r
             ELSE With(GroupedAdd(grouped, opts[k][3], opts[k][2], r.val),
                       LAMBDA grouped2 : OptionsLoop(db, grouped2, opts, k + 1)))

\* for _, (n, choices) in grouped.items(): totals + Nutrients.avg(choices) * n
RECURSIVE GroupedLoop(_, _, _)
GroupedLoop(tot, grouped, k) ==
    IF k > Len(grouped) THEN Return(tot)
    ELSE With(avg(grouped[k].choices), LAMBDA a :
             IF ~a.ok THEN a
             ELSE With(NAdd(tot, NMul(a.val, RInt(grouped[k].n))),
                       LAMBDA tot2 : GroupedLoop(tot2, grouped, k + 1)))

\* menu.carbs_per_day.get(day): <<grams>>, or <<>> for None
CarbsGet(m, d) ==
    IF \E i \in 1..Len(m.carbs_per_day) : m.carbs_per_day[i].day = d
    THEN <<m.carbs_per_day[CHOOSE i \in 1..Len(m.carbs_per_day) :
                              m.carbs_per_day[i].day = d].grams>>
    ELSE <<>>

\* menu.carbs_item and (grams := menu.carbs_per_day.get(day))
HasCarbs(m, d) ==
    /\ m.carbs_item # None /\ m.carbs_item # <<>>
    /\ CarbsGet(m, d) # <<>> /\ CarbsGet(m, d)[1].qty # Zero

RECURSIVE FracStr(_, _)
FracStr(r, d) ==
    IF r = 0 THEN <<>>
    ELSE <<DigitChars[((r * 10) \div d) + 1]>> \o FracStr((r * 10) % d, d)

\* f"{grams}": str of the int 1, or repr of a float below 1e16
AmountStr(a) ==
    IF a.isint THEN IntStr(a.qty[1])
    ELSE LET n == a.qty[1]
             d == a.qty[2]
         IN  IntStr(n \div d) \o <<".">>
             \o (IF n % d = 0 THEN <<"0">> ELSE FracStr(n % d, d))

\* f"{grams}g {menu.carbs_item}"
CarbsText(m, grams) == AmountStr(grams) \o <<"g", " ">> \o m.carbs_item

\* the extra added with its literal calorie figure only
ExtraNutrients_literal(extra) == Nutrients(extra.c, extra.p, extra.f, extra.cal)

ExtraNutrients(extra) ==
    LET extra_cal == RAdd(RAdd(RMul(extra.c, RInt(KCAL_PER_G.c)),
                               RMul(extra.p, RInt(KCAL_PER_G.p))),
                          RMul(extra.f, RInt(KCAL_PER_G.f)))
    IN  Nutrients(extra.c, extra.p, extra.f, RAdd(extra.cal, extra_cal))

\* the per-day carbs step of calculate
CarbsStep(db, m, d, tot) ==
    IF ~HasCarbs(m, d) THEN Return(tot)
    ELSE With(get(db, CarbsText(m, CarbsGet(m, d)[1])), LAMBDA r :
             IF ~r.ok THEN r ELSE Return(NAdd(tot, r.val)))

calculate(db, m, d) ==
    With(FixedLoop(db, NutrientsZero, m.fixed, 1), LAMBDA t1 :
        IF ~t1.ok THEN t1 ELSE
    With(OptionsLoop(db, <<>>, m.options, 1), LAMBDA grouped :
        IF ~grouped.ok THEN grouped ELSE
    With(GroupedLoop(t1.val, grouped.val, 1), LAMBDA t2 :
        IF ~t2.ok THEN t2 ELSE
    With(CarbsStep(db, m, d, t2.val), LAMBDA t3 :
        IF ~t3.ok THEN t3
        ELSE Return(NAdd(t3.val, ExtraNutrients(m.extra)))))))

\* f"{x:.0f}": to the nearest integer, halves to the even one
Round(x) ==
    LET q == x[1] \div x[2]
        r == x[1] % x[2]
    IN  IF 2 * r < x[2] THEN q
        ELSE IF 2 * r > x[2] THEN q + 1
        ELSE IF q % 2 = 0 THEN q ELSE q + 1

\* str.capitalize() of a day of DAYS
Capitalize(d) ==
    CASE d = "upper" -> "Upper"
      [] d = "lower" -> "Lower"
      [] d = "rest" -> "Rest"

\* format_row: the fields of the row; total_cal = 0 raises
format_row(d, t) ==
    LET c_cal == RMul(t.c, RInt(KCAL_PER_G.c))
        p_cal == RMul(t.p, RInt(KCAL_PER_G.p))
        f_cal == RMul(t.f, RInt(KCAL_PER_G.f))
        total_cal == RAdd(RAdd(p_cal, c_cal), f_cal)
        Pct(x) == Round(RMul(RDiv(x, total_cal), RInt(100)))
    IN  IF total_cal = Zero THEN Raise("ZeroDivisionError", <<>>)
        ELSE Return([day |-> Capitalize(d), cal |-> Round(t.cal),
                     c |-> Round(t.c), c_pct |-> Pct(c_cal),
                     p |-> Round(t.p), p_pct |-> Pct(p_cal),
                     f |-> Round(t.f), f_pct |-> Pct(f_cal)])

(***************************************************************************)
(* Inputs                                                                  *)
(***************************************************************************)
RECURSIVE SeqsOfLen(_, _)
SeqsOfLen(S, k) ==
    IF k = 0 THEN {<<>>}
    ELSE {Append(w, x) : w \in SeqsOfLen(S, k - 1), x \in S}

SeqsUpTo(S, k) == UNION {SeqsOfLen(S, n) : n \in 0..k}

Spaces(k) == [i \in 1..k |-> " "]

rice == <<"r", "i", "c", "e">>

brown == <<"b", "r", "o", "w", "n">>

egg == <<"e", "g", "g">>

rapes == <<"r", "a", "p", "e", "s">>

grapes == <<"g">> \o rapes

Join(a, b) == a \o <<" ">> \o b

NumberTexts == {<<"5">>, <<"1", "5">>, <<"1", ".", "5">>, <<"1", "5", "0">>}

WordTexts == SeqsUpTo(Letters, MaxWordLen) \ {<<>>}

TailTexts == {<<>>, <<" ">> \o egg}

\* '<number><spaces><word><tail>' and a few texts of the other forms
QuantityTexts ==
    {n \o Spaces(k) \o w \o tl :
        n \in NumberTexts, k \in 0..MaxSpaces, w \in WordTexts, tl \in TailTexts}
    \cup NumberTexts
    \cup {<<>>, egg, <<"H", "a", "l", "f", " ">> \o egg, half_ \o <<" ">> \o egg,
          <<"h", "a", "l", "f">>, <<" ">> \o egg \o <<" ">>,
          <<"1", "5", "0", "g">>, <<"5">> \o Spaces(1) \o grapes,
          <<"2", " ", "c", "u", "p", "s", " ">> \o rice,
          <<"1", "5", "0", ".", "2", "5">>, <<"0">>, <<"0", "g">>}

Unset == None

\* exit_status while the process runs
NotExited == -1

\* no exception is in flight
NoException == Return(None)

InitPure == text = <<>> /\ pq = Unset

InitDB == lines = <<>> /\ items = <<>> /\ found = Unset /\ present = Unset
          /\ got = Unset

InitMain == /\ data = <<>> /\ menu = Unset /\ day = 0 /\ totals = Unset
            /\ report = <<>> /\ log = Unset /\ out_file = Unset
            /\ exit_status = NotExited /\ raised = NoException /\ validated = FALSE
            /\ calc_calls = 0

(***************************************************************************)
(* parse_quantity on its own                                               *)
(***************************************************************************)
InitParse == /\ pc = "parse"
             /\ text \in QuantityTexts
             /\ pq = Unset
             /\ InitDB /\ InitMain

ParseQuantity ==
    /\ pc = "parse"
    /\ pq' = parse_quantity(text)
    /\ pc' = "parsed"
    /\ UNCHANGED <<text, dbVars, mainVars>>

NextParse == ParseQuantity

SpecParse == InitParse /\ [][NextParse]_vars

(***************************************************************************)
(* NutritionDB on its own: load, then match, exists and get of one text    *)
(***************************************************************************)
Line(n, name, c, amt, unit) ==
    [ncols |-> n, name |-> name, c |-> RInt(c), p |-> RInt(2), f |-> RInt(1),
     serving_amt |-> RInt(amt), serving_unit |-> unit, cal |-> RInt(10 * c)]

HeaderLine == Line(8, <<"n", "a", "m", "e">>, 0, 0, <<>>)

SeparatorLine == Line(8, <<"-">>, 0, 0, <<>>)

DataLines ==
    {Line(8, rice, 20, 100, g_),
     Line(8, rice, 30, 50, g_),
     Line(8, brown \o <<" ", "R", "i", "c", "e">>, 24, 100, <<"G">>),
     Line(8, egg, 1, 1, <<>>),
     Line(8, Join(egg, rice), 6, 1, cup),
     Line(8, <<>>, 3, 1, g_),
     Line(8, rapes, 4, 0, g_),
     Line(7, grapes, 5, 100, g_)}

Tables == {<<HeaderLine, SeparatorLine>> \o ls : ls \in SeqsUpTo(DataLines, MaxRows)}

FoodTexts ==
    {<<>>, rice, <<"R", "i", "c", "e", " ">>, Join(brown, rice), brown, egg,
     Join(rice, egg), Join(egg, brown),
     <<"1", "0", "0", "g", " ">> \o rice, <<"2", " ">> \o cup \o <<" ">> \o rice,
     <<"5", "0", "g", " ">> \o Join(brown, rice),
     half_ \o egg, <<"2", " ">> \o egg, <<"1">> \o rice,
     <<"5", " ">> \o grapes, <<"3", "g", " ">> \o rapes, <<"2", " ">> \o cup \o <<" ">> \o rapes}

InitDBOnly == /\ pc = "db_start"
              /\ lines \in Tables
              /\ text \in FoodTexts
              /\ items = <<>> /\ found = Unset /\ present = Unset /\ got = Unset
              /\ pq = Unset
              /\ InitMain

DBLoad ==
    /\ pc = "db_start"
    /\ items' = NutritionDB_load(lines)
    /\ pc' = "db_loaded"
    /\ UNCHANGED <<pureVars, lines, found, present, got, mainVars>>

DBMatch ==
    /\ pc = "db_loaded"
    /\ found' = match(items, text)
    /\ pc' = "db_matched"
    /\ UNCHANGED <<pureVars, lines, items, present, got, mainVars>>

DBExists ==
    /\ pc = "db_matched"
    /\ present' = exists(items, text)
    /\ pc' = "db_checked"
    /\ UNCHANGED <<pureVars, lines, items, found, got, mainVars>>

DBGet ==
    /\ pc = "db_checked"
    /\ got' = get(items, text)
    /\ pc' = "db_done"
    /\ UNCHANGED <<pureVars, lines, items, found, present, mainVars>>

NextDB == DBLoad \/ DBMatch \/ DBExists \/ DBGet

SpecDB == InitDBOnly /\ [][NextDB]_vars

(***************************************************************************)
(* main(): load the table and the menu, validate, compute and format the   *)
(* three days, log the report and write out.md                             *)
(***************************************************************************)
hundred_g_rice == <<"1", "0", "0", "g", " ">> \o rice

five_grapes == <<"5", " ">> \o grapes

choose(n) == choose_ \o <<" ">> \o IntStr(n)

Choose(n) == <<"C", "h", "o", "o", "s", "e", " ">> \o IntStr(n)

\* the elements a food section is made of
SectionItems ==
    <<YStr(egg),
     YStr(five_grapes),
     YMap(<< <<choose(2), YList(<<YStr(egg),
                                  YMap(<< <<brown, YList(<<rice, Join(brown, rice)>>)>> >>)>>)>> >>),
     YMap(<< <<choose(2), YList(<<YStr(egg)>>)>> >>),
     YMap(<< <<Choose(1), YList(<<YStr(rice)>>)>> >>),
     YMap(<< <<choose(1), YList(<<YMap(<< <<egg, YList(<<>>)>> >>)>>)>> >>),
     YMap(<< <<<<"p", "i", "c", "k", " ", "1">>, YList(<<YStr(egg)>>)>>,
             <<choose(0), YNull>>,
             <<choose(1) \o <<" ", "o", "f">>, YList(<<YStr(hundred_g_rice), YInt(7)>>)>> >>)>>

CarbsSections ==
    <<<<>>,
     << <<"carbs", YMap(<< <<rice, YMap(<< <<"upper", YInt(150)>>,
                                           <<"lower", YStr(<<"5", "0", "g">>)>>,
                                           <<"rest", YInt(0)>> >>)>> >>)>> >>,
     << <<"carbs", YMap(<< <<<<"1">> \o rice,
                            YMap(<< <<"lower", YStr(<<"5", "0", "g">>)>> >>)>> >>)>> >>,
     << <<"carbs", YMap(<< <<rice, YMap(<< <<"upper", YInt(7)>> >>)>>,
                           <<egg, YMap(<< <<"upper", YStr(<<"0", "g">>)>>,
                                          <<"lower", YStr(<<"1", ".", "5", "g">>)>>,
                                          <<"rest", YStr(<<"2", "5", " ", "G">>)>> >>)>> >>)>> >>>>

ExtraSections ==
    <<<<>>,
     << <<"extra", YMap(<< <<"carbs", YInt(10)>>, <<"calories", YInt(5)>> >>)>> >>,
     << <<"extra", YMap(<< <<"carbs", YInt(10)>>, <<"protein", YInt(3)>>,
                           <<"fat", YInt(2)>> >>)>> >>>>

\* the document with extra section ex, carbs section cb and one food section
\* made of the elements picks names
MenuDoc(ex, cb, picks) ==
    YMap(<< <<"title", YStr(egg)>> >> \o ExtraSections[ex] \o CarbsSections[cb]
         \o << <<"meals", YList([k \in 1..Len(picks) |-> SectionItems[picks[k]]])>> >>)

MainTables ==
    <<<<HeaderLine, SeparatorLine,
       Line(8, rice, 20, 100, g_), Line(8, egg, 1, 1, <<>>),
       Line(8, Join(brown, rice), 24, 100, g_)>>,
     <<HeaderLine, SeparatorLine,
       Line(8, <<"R", "i", "c", "e">>, 20, 100, g_), Line(8, rapes, 4, 50, g_),
       Line(8, egg, 1, 1, <<>>)>>,
     <<HeaderLine, SeparatorLine,
       Line(8, rice, 20, 0, g_), Line(7, egg, 1, 1, <<>>)>>>>

HeaderRows == <<"| Day | Calories | Carbs | Protein | Fat |",
                "|-----|----------|-------|---------|-----|">>

Init == /\ pc = "start"
        /\ \E tb \in 1..Len(MainTables) : lines = MainTables[tb]
        /\ \E ex \in 1..Len(ExtraSections), cb \in 1..Len(CarbsSections),
              picks \in SeqsUpTo(1..Len(SectionItems), MaxItems) :
               data = MenuDoc(ex, cb, picks)
        /\ InitPure
        /\ items = <<>> /\ found = Unset /\ present = Unset /\ got = Unset
        /\ menu = Unset /\ day = 0 /\ totals = Unset /\ report = <<>>
        /\ log = Unset /\ out_file = Unset /\ exit_status = NotExited
        /\ raised = NoException /\ validated = FALSE /\ calc_calls = 0

\* db = NutritionDB("nutrition_facts.md")
LoadDB ==
    /\ pc = "start"
    /\ items' = NutritionDB_load(lines)
    /\ pc' = "db_ready"
    /\ UNCHANGED <<pureVars, lines, found, present, got, mainVars>>

\* menu = Menu("menu.yaml")
LoadMenu ==
    /\ pc = "db_ready"
    /\ menu' = Menu(data)
    /\ pc' = "menu_ready"
    /\ UNCHANGED <<pureVars, dbVars, data, day, totals, report, log, out_file,
                   exit_status, raised, validated, calc_calls>>

\* check_menu(db, menu)
CheckMenu ==
    /\ pc = "menu_ready"
    /\ \E r \in {check_menu(items, menu)} :
           IF r.ok
           THEN /\ validated' = TRUE /\ day' = 1 /\ pc' = "calc"
                /\ UNCHANGED raised
           ELSE /\ raised' = r /\ pc' = "raised"
                /\ UNCHANGED <<validated, day>>
    /\ UNCHANGED <<pureVars, dbVars, data, menu, totals, report, log, out_file,
                   exit_status, calc_calls>>

\* t = calculate(db, menu, day)
Calculate ==
    /\ pc = "calc"
    /\ calc_calls' = calc_calls + 1
    /\ \E r \in {calculate(items, menu, DAYS[day])} :
           IF r.ok
           THEN /\ totals' = r.val /\ pc' = "format" /\ UNCHANGED raised
           ELSE /\ raised' = r /\ pc' = "raised" /\ UNCHANGED totals
    /\ UNCHANGED <<pureVars, dbVars, data, menu, day, report, log, out_file,
                   exit_status, validated>>

\* rows.append(format_row(day, t)), and on to the next day
FormatRow ==
    /\ pc = "format"
    /\ \E r \in {format_row(DAYS[day], totals)} :
           IF r.ok
           THEN /\ report' = Append(report, r.val)
                /\ IF day = Len(DAYS)
                   THEN pc' = "emit" /\ UNCHANGED day
                   ELSE pc' = "calc" /\ day' = day + 1
                /\ UNCHANGED raised
           ELSE /\ raised' = r /\ pc' = "raised" /\ UNCHANGED <<report, day>>
    /\ UNCHANGED <<pureVars, dbVars, data, menu, totals, log, out_file,
                   exit_status, validated, calc_calls>>

\* logging.info(output)
LogReport ==
    /\ pc = "emit"
    /\ log' = <<"info", <<HeaderRows, report>>>>
    /\ pc' = "write"
    /\ UNCHANGED <<pureVars, dbVars, data, menu, day, totals, report, out_file,
                   exit_status, raised, validated, calc_calls>>

\* with open("out.md", "w") as f: f.write(output + "\n"); main returns
WriteFile ==
    /\ pc = "write"
    /\ out_file' = <<HeaderRows, report>>
    /\ exit_status' = 0
    /\ pc' = "exited"
    /\ UNCHANGED <<pureVars, dbVars, data, menu, day, totals, report, log,
                   raised, validated, calc_calls>>

\* the handler also writing the rows computed so far
HandleValueError_partial ==
    /\ pc = "raised"
    /\ raised.exc = "ValueError"
    /\ log' = <<"error", raised.msg>>
    /\ out_file' = <<HeaderRows, report>>
    /\ exit_status' = 1
    /\ pc' = "exited"
    /\ UNCHANGED <<pureVars, dbVars, data, menu, day, totals, report,
                   raised, validated, calc_calls>>

\* except ValueError as e: logging.error(e); sys.exit(1)
HandleValueError ==
    /\ pc = "raised"
    /\ raised.exc = "ValueError"
    /\ log' = <<"error", raised.msg>>
    /\ exit_status' = 1
    /\ pc' = "exited"
    /\ UNCHANGED <<pureVars, dbVars, data, menu, day, totals, report, out_file,
                   raised, validated, calc_calls>>

\* any other exception leaves main: the interpreter prints the traceback and
\* exits with status 1
Uncaught ==
    /\ pc = "raised"
    /\ raised.exc # "ValueError"
    /\ exit_status' = 1
    /\ pc' = "exited"
    /\ UNCHANGED <<pureVars, dbVars, data, menu, day, totals, report, log,
                   out_file, raised, validated, calc_calls>>

Next == \/ LoadDB \/ LoadMenu \/ CheckMenu \/ Calculate \/ FormatRow
        \/ LogReport \/ WriteFile \/ HandleValueError \/ Uncaught

Spec == Init /\ [][Next]_vars

(***************************************************************************)
(* Properties of parse_quantity (SpecParse)                                *)
(***************************************************************************)
IsNumberText(t) ==
    \E i \in 1..Len(t) :
        /\ \A k \in 1..i : IsDigit(t[k])
        /\ \/ i = Len(t)
           \/ /\ i + 2 <= Len(t)
              /\ t[i + 1] = "."
              /\ \A k \in (i + 2)..Len(t) : IsDigit(t[k])

\* the text from the first occurrence of word w on
RECURSIVE FromWord(_, _)
FromWord(t, w) ==
    IF t = <<>> \/ startswith(t, w) THEN t ELSE FromWord(Tail(t), w)

\* C3: for a text '<number> <word> ...' whose word is neither "g" nor "cup",
\* parse_quantity reports no unit and the remainder is the text from that
\* word on, the word whole.
C3_OnlyExactUnitToken ==
    pc = "parsed" =>
        LET toks == split(lower(text))
        IN  (Len(toks) >= 2 /\ IsNumberText(toks[1]) /\ toks[2] \notin {g_, cup})
            => /\ pq.unit = None
               /\ pq.item = FromWord(Tail(strip(lower(text))), toks[2])

(***************************************************************************)
(* Properties of NutritionDB (SpecDB)                                      *)
(***************************************************************************)
\* C2: exists(x) is true if and only if get(x) returns without raising.
C2_ExistsIffGetReturns ==
    pc = "db_done" => (present = TRUE <=> got.ok)

WordsOf(t) == Range(split(t))

Overlap(t, name) == Cardinality(WordsOf(t) \cap WordsOf(name))

\* score of name a for text t is strictly greater than that of name b
ScoreAbove(t, a, b) ==
    LET na == Cardinality(WordsOf(a))
        nb == Cardinality(WordsOf(b))
    IN  IF na = 0 THEN FALSE
        ELSE IF nb = 0 THEN Overlap(t, a) > 0
        ELSE Overlap(t, a) * nb > Overlap(t, b) * na

ScoreAboveHalf(t, a) == 2 * Overlap(t, a) > Cardinality(WordsOf(a))

\* indices of the stored names whose score for t is maximal over the table
MaximalNames(db, t) ==
    {i \in 1..Len(db) : \A j \in 1..Len(db) : ~ScoreAbove(t, db[j].name, db[i].name)}

FirstMaximal(db, t) ==
    CHOOSE i \in MaximalNames(db, t) : \A j \in MaximalNames(db, t) : i <= j

\* C6: match returns the text itself when it is a stored name; otherwise the
\* first stored name of maximal score when that score is above 0.5, and None
\* when it is not; a result other than None is a key of the table.
C6_MatchResult ==
    pc \in {"db_matched", "db_checked", "db_done"} =>
        LET t == strip(lower(text))
        IN  /\ t \in Names(items) => found = t
            /\ t \notin Names(items) =>
                 IF items # <<>> /\ ScoreAboveHalf(t, items[FirstMaximal(items, t)].name)
                 THEN found = items[FirstMaximal(items, t)].name
                 ELSE found = None
            /\ found # None => found \in Names(items)

\* a fuzzy match that had to break a tie between two names of maximal score
C6_Witness ==
    /\ pc = "db_matched"
    /\ strip(lower(text)) \notin Names(items)
    /\ found # None
    /\ Cardinality(MaximalNames(items, strip(lower(text)))) >= 2

(***************************************************************************)
(* Properties of the menu model and of main (Spec)                         *)
(***************************************************************************)
MenuLoaded == pc \notin {"start", "db_ready"}

CheckDone == pc \notin {"start", "db_ready", "menu_ready"}

\* C1: once check_menu has returned without raising, no calculate call fails
\* with the lookup error 'Item not found', at any of the three lookup sites.
C1_NoItemNotFoundAfterValidation ==
    (validated /\ ~raised.ok) =>
        ~(raised.exc = "ValueError" /\ raised.msg[1] = "Item not found")

AllDigits(t) == t # <<>> /\ \A k \in 1..Len(t) : IsDigit(t[k])

\* <<N>> for a day value written as the number N, bare or followed by "g"
WrittenGrams(val) ==
    IF val.t = "int" THEN <<val.v>>
    ELSE IF val.t = "str" /\ AllDigits(val.v) THEN <<DigitsVal(val.v)>>
    ELSE IF /\ val.t = "str" /\ Len(val.v) >= 2 /\ val.v[Len(val.v)] = "g"
            /\ AllDigits(SubSeq(val.v, 1, Len(val.v) - 1))
         THEN <<DigitsVal(SubSeq(val.v, 1, Len(val.v) - 1))>>
    ELSE <<>>

\* C4: for every day of the carbs section whose value is a number N, bare or
\* followed by "g", carbs_per_day[day] is N, and the text calculate looks up
\* for that day asks for N grams.
C4_CarbsPerDayIsWrittenAmount ==
    (MenuLoaded /\ Truthy(DictGet(data, "carbs", YNull))) =>
        LET carbs == DictGet(data, "carbs", YNull).v
            amounts == carbs[Len(carbs)][2].v
        IN  \A i \in 1..Len(amounts) :
                LET n == WrittenGrams(amounts[i][2])
                    stored == CarbsGet(menu, amounts[i][1])
                IN  n # <<>> =>
                        /\ stored # <<>>
                        /\ stored[1].qty = RInt(n[1])
                        /\ n[1] > 0 =>
                             LET q == parse_quantity(CarbsText(menu, stored[1]))
                             IN  q.qty = RInt(n[1]) /\ q.unit = g_

\* the key-value pairs, in document order, of the mapping elements of the
\* food sections whose key reads 'choose <N>' in any letter case
ChooseBlocks(d) ==
    LET secs == SelectSeq(d.v, LAMBDA kv : kv[1] \notin RESERVED_KEYS /\ kv[2].t = "list")
        elems == Flatten([i \in 1..Len(secs) |-> secs[i][2].v])
        maps == SelectSeq(elems, LAMBDA e : e.t = "map")
        pairs == Flatten([i \in 1..Len(maps) |-> maps[i].v])
    IN  SelectSeq(pairs, LAMBDA kv : ChooseMatch(lower(kv[1])) # None)

BlockCount(kv) == DigitsVal(ChooseMatch(lower(kv[1])))

\* the option-groups one block lists, tagged with its count and its id
BlockOptions(kv, id) ==
    LET opts == IF Truthy(kv[2]) THEN kv[2].v ELSE <<>>
        listed == SelectSeq(opts, LAMBDA o : o.t \in {"str", "map"})
    IN  [i \in 1..Len(listed) |->
            <<IF listed[i].t = "str" THEN <<listed[i].v>> ELSE listed[i].v[1][2].v,
              BlockCount(kv), id>>]

\* C5: every mapping element whose key reads 'choose <N>' in any letter case
\* opens a group with the next sequential id, choose_groups[id] = N, and its
\* options appended as (items, N, id) in listing order; every triple of
\* options carries the id of a group with the same N.
C5_ChooseAnyCaseOpensGroup ==
    MenuLoaded =>
        \E blocks \in {ChooseBlocks(data)} :
            /\ menu.choose_groups = [id \in 1..Len(blocks) |-> BlockCount(blocks[id])]
            /\ menu.options = Flatten([id \in 1..Len(blocks) |-> BlockOptions(blocks[id], id)])
            /\ \A i \in 1..Len(menu.options) :
                   /\ menu.options[i][3] \in 1..Len(menu.choose_groups)
                   /\ menu.choose_groups[menu.options[i][3]] = menu.options[i][2]

NutrientFields == {"c", "p", "f", "cal"}

\* field fld of the value the table resolves text x to
Resolved(x, fld) == get(items, x).val[fld]

\* the sum of the resolved first k items of a group
RECURSIVE ItemsSum(_, _, _)
ItemsSum(its, k, fld) ==
    IF k = 0 THEN Zero ELSE RAdd(ItemsSum(its, k - 1, fld), Resolved(its[k], fld))

\* the average of the resolved items of one group
GroupValue(its, fld) == RDiv(ItemsSum(its, Len(its), fld), RInt(Len(its)))

RECURSIVE GroupsSum(_, _, _)
GroupsSum(groups, k, fld) ==
    IF k = 0 THEN Zero
    ELSE RAdd(GroupsSum(groups, k - 1, fld), GroupValue(groups[k], fld))

FixedPart(fld) == GroupsSum(menu.fixed, Len(menu.fixed), fld)

\* the item lists of the option-groups tagged id
OptionsOf(id) ==
    LET tagged == SelectSeq(menu.options, LAMBDA o : o[3] = id)
    IN  [k \in 1..Len(tagged) |-> tagged[k][1]]

\* N times the average over all the option-groups of choice group id
ChoiceValue(id, fld) ==
    LET groups == OptionsOf(id)
    IN  IF groups = <<>> THEN Zero
        ELSE RMul(RInt(menu.choose_groups[id]),
                  RDiv(GroupsSum(groups, Len(groups), fld), RInt(Len(groups))))

RECURSIVE ChoiceSum(_, _)
ChoiceSum(id, fld) ==
    IF id = 0 THEN Zero ELSE RAdd(ChoiceSum(id - 1, fld), ChoiceValue(id, fld))

ChoicePart(fld) == ChoiceSum(Len(menu.choose_groups), fld)

\* the amounts configured for day d that are not zero
CarbsAmounts(d) ==
    {menu.carbs_per_day[i].grams : i \in
        {j \in 1..Len(menu.carbs_per_day) :
            menu.carbs_per_day[j].day = d /\ menu.carbs_per_day[j].grams.qty[1] # 0}}

CarbsPart(d, fld) ==
    IF menu.carbs_item \in {None, <<>>} \/ CarbsAmounts(d) = {} THEN Zero
    ELSE Resolved(AmountStr(CHOOSE a \in CarbsAmounts(d) : TRUE)
                  \o <<"g", " ">> \o menu.carbs_item, fld)

ExtraPart(fld) ==
    IF fld = "cal"
    THEN RAdd(menu.extra.cal,
              RAdd(RMul(RInt(4), menu.extra.c),
                   RAdd(RMul(RInt(4), menu.extra.p), RMul(RInt(9), menu.extra.f))))
    ELSE menu.extra[fld]

\* the single fixed item of the menu is asked for at its reference serving
OneItemAtReference(d) ==
    /\ Len(menu.fixed) = 1 /\ menu.options = <<>> /\ CarbsPart(d, "cal") = Zero
    /\ LET q == parse_quantity(menu.fixed[1][1])
           rec == Item(items, match(items, q.item))
       IN  q.qty = rec.serving_amt /\ q.unit \in {None, rec.serving_unit}

\* C7: the total calculate returns for a day is the sum over the fixed groups
\* of the group's average, plus for each choice group N times the average
\* over all its option-groups, plus the day's carbs item, plus the extra with
\* calories extra.cal + 4*c + 4*p + 9*f; one fixed item at its reference
\* serving yields the table record plus that extra.
C7_CalculateTotal ==
    pc = "format" =>
        /\ \A fld \in NutrientFields :
               totals[fld] = RAdd(RAdd(FixedPart(fld), ChoicePart(fld)),
                                  RAdd(CarbsPart(DAYS[day], fld), ExtraPart(fld)))
        /\ OneItemAtReference(DAYS[day]) =>
               LET rec == Item(items, match(items, parse_quantity(menu.fixed[1][1]).item))
               IN  /\ menu.extra = NutrientsZero =>
                       \A fld \in NutrientFields : totals[fld] = rec[fld]
                   /\ (menu.extra.c = RInt(10) /\ menu.extra.p = Zero /\ menu.extra.f = Zero) =>
                       /\ totals.c = RAdd(rec.c, RInt(10))
                       /\ totals.cal = RAdd(rec.cal, RAdd(RInt(40), menu.extra.cal))

\* a day total made of a fixed item, a choice group with an option-group of
\* several items, the day's carbs and an extra
C7_Witness ==
    /\ pc = "format"
    /\ menu.fixed # <<>>
    /\ \E i \in 1..Len(menu.options) : Len(menu.options[i][1]) >= 2
    /\ CarbsPart(DAYS[day], "cal") # Zero
    /\ menu.extra.c = RInt(10)

AllResolve ==
    \A i \in 1..Len(all_items(menu)) : exists(items, all_items(menu)[i])

Tagged(id) == Cardinality({i \in 1..Len(menu.options) : menu.options[i][3] = id})

ShortGroups == {id \in 1..Len(menu.choose_groups) : Tagged(id) < menu.choose_groups[id]}

\* C8: when every menu item resolves, check_menu fails if and only if some
\* choice group has fewer option-groups than its count N, and the failure
\* reports N and the number of option-groups present.
C8_ShortfallFailure ==
    (CheckDone /\ AllResolve) =>
        /\ ~validated <=> ShortGroups # {}
        /\ ~validated =>
               /\ raised.exc = "ValueError"
               /\ \E id \in ShortGroups :
                      raised.msg = <<"choose", menu.choose_groups[id], Tagged(id)>>

\* a choose-2 group with one option-group fails validation
C8_Witness ==
    /\ CheckDone /\ AllResolve /\ ~validated
    /\ raised.msg = <<"choose", 2, 1>>

MissingItems == SelectSeq(all_items(menu), LAMBDA x : ~exists(items, x))

\* C9: when items of all_items() do not resolve, check_menu raises one failure
\* listing every such item in all_items order and no item that resolves, also
\* when a choice group is short.
C9_MissingAggregated ==
    (CheckDone /\ MissingItems # <<>>) =>
        /\ ~validated
        /\ raised.exc = "ValueError"
        /\ raised.msg = <<"Not found", MissingItems>>

\* two items missing, one item resolving and a short choice group
C9_Witness ==
    /\ pc = "raised"
    /\ Len(MissingItems) >= 2
    /\ Len(all_items(menu)) > Len(MissingItems)
    /\ ShortGroups # {}
    /\ raised.msg[1] = "Not found"

\* C10: calculate is called only after check_menu has returned; the report
\* is logged and written only after the three days were computed; a failed
\* run writes nothing to out.md and exits with a non-zero status.
C10_ReportAllOrNothing ==
    /\ calc_calls > 0 => validated
    /\ (log # Unset /\ log[1] = "info") =>
           /\ validated /\ calc_calls = Len(DAYS) /\ Len(report) = Len(DAYS)
           /\ log[2] = <<HeaderRows, report>>
    /\ out_file # Unset =>
           /\ raised.ok /\ validated
           /\ calc_calls = Len(DAYS)
           /\ out_file = <<HeaderRows, report>>
           /\ \A i \in 1..Len(DAYS) : report[i].day = Capitalize(DAYS[i])
    /\ ~raised.ok => out_file = Unset
    /\ (~raised.ok /\ pc = "exited") => exit_status \notin {0, NotExited}

\* a run that computed a day and then failed: nothing written, status 1
C10_Witness ==
    /\ pc = "exited"
    /\ ~raised.ok
    /\ Len(report) >= 1
    /\ out_file = Unset
    /\ exit_status = 1

====
